---- MODULE Spec2Model ----
(***************************************************************************)
(* Model of building_an_etl_pipeline_using_pyspark.py: a linear batch ETL  *)
(* script.  Every top-level statement of the script that changes program   *)
(* state is one action; pc is the position of the script.  A data frame is *)
(* a record [columns, types, rows]; a row is a sequence of cells aligned   *)
(* with the columns; a cell is a tagged tuple.  Strings are sequences of   *)
(* one-character strings so that startswith and substring are computed.    *)
(***************************************************************************)
EXTENDS Integers, Sequences, FiniteSets, TLC

\* ---------------------------------------------------------------- bounds
MaxRows == 2
MaxRuns == 2
MaxLabelLen == 6

\* ------------------------------------------------------ program constants
NumYears == 62
FirstYear == 1961
SubstringPos == 2
SubstringLen == 4
LastRows == 5

\* ------------------------------------------------------------------ cells
Null == <<"null">>
IntV(n) == <<"int", n>>
StrV(s) == <<"string", s>>
DblV(x) == <<"double", x>>
\* the double that is not a number (a "NaN" cell of the input file)
NaN == <<"nan">>
CastError == <<"error">>
\* the value of a name that is not bound
None == [bound |-> FALSE]
\* the content of a path at which there is no file
NoFile == [exists |-> FALSE]

IsNull(v) == v = Null

IsNaN(v) == v = NaN

\* ---------------------------------------------------------------- strings
DigitChars == <<"0", "1", "2", "3", "4", "5", "6", "7", "8", "9">>

IsDigit(c) == \E d \in 1..10 : DigitChars[d] = c

DigitVal(c) == (CHOOSE d \in 1..10 : DigitChars[d] = c) - 1

RECURSIVE Digits(_)
\* Python str(n) for n >= 0
Digits(n) == IF n < 10 THEN <<DigitChars[n + 1]>>
             ELSE Digits(n \div 10) \o <<DigitChars[(n % 10) + 1]>>

RECURSIVE DigitsVal(_)
\* value of a non-empty sequence of digit characters
DigitsVal(s) == IF Len(s) = 0 THEN 0
                ELSE 10 * DigitsVal(SubSeq(s, 1, Len(s) - 1)) + DigitVal(s[Len(s)])

AllDigits(s) == \A i \in DOMAIN s : IsDigit(s[i])

\* Python str.startswith
StartsWith(s, p) == Len(s) >= Len(p) /\ SubSeq(s, 1, Len(p)) = p

Min(a, b) == IF a < b THEN a ELSE b

\* Spark SQL substring(str, pos, len) for pos >= 1: 1-based, clipped to the string
Substring(s, pos, len) == SubSeq(s, pos, Min(Len(s), pos + len - 1))

\* Spark SQL int(str): optional sign, digits, optional fraction that is
\* truncated; anything else is NULL when ANSI mode is off and an error when
\* it is on (a fraction is an error too under ANSI).
CastInt(s, ansi) ==
    LET signed == Len(s) > 0 /\ s[1] \in {"-", "+"}
        body == IF signed THEN SubSeq(s, 2, Len(s)) ELSE s
        dots == {i \in DOMAIN body : body[i] = "."}
        cut == IF dots = {} THEN Len(body) + 1
               ELSE CHOOSE i \in dots : \A j \in dots : i <= j
        whole == SubSeq(body, 1, cut - 1)
        frac == SubSeq(body, cut + 1, Len(body))
        ok == /\ Len(whole) > 0
              /\ AllDigits(whole)
              /\ AllDigits(frac)
              /\ (ansi => dots = {})
        n == DigitsVal(whole)
    IN  IF ok THEN IntV(IF signed /\ s[1] = "-" THEN 0 - n ELSE n)
        ELSE IF ansi THEN CastError ELSE Null

\* expr("int(substring(Year, 2, 4))") applied to one cell
YearExpr(cell, ansi) ==
    IF IsNull(cell) THEN Null
    ELSE CastInt(Substring(cell[2], SubstringPos, SubstringLen), ansi)

\* ----------------------------------------------------------- column names
ObjectIdCol == <<"O", "b", "j", "e", "c", "t", "I", "d">>
CountryCol == <<"C", "o", "u", "n", "t", "r", "y">>
ISO2Col == <<"I", "S", "O", "2">>
ISO3Col == <<"I", "S", "O", "3">>
YearCol == <<"Y", "e", "a", "r">>
TemperatureCol == <<"T", "e", "m", "p", "e", "r", "a", "t", "u", "r", "e">>
Unknown == <<"U", "n", "k", "n", "o", "w", "n">>

\* f"F{1961 + i}"
FLabel(i) == <<"F">> \o Digits(FirstYear + i)

Years == FirstYear .. (FirstYear + NumYears - 1)

\* header of the input file: identity columns, then one F<year> column per year
CsvHeader == <<ObjectIdCol, CountryCol, ISO2Col, ISO3Col>>
             \o [i \in 1..NumYears |-> FLabel(i - 1)]

HasColumn(columns, name) == \E i \in DOMAIN columns : columns[i] = name

ColIndex(columns, name) == CHOOSE i \in DOMAIN columns : columns[i] = name

Range(s) == {s[i] : i \in DOMAIN s}

\* multiset of the rows of a table, for tables whose row order is a matter
\* of physical file layout
SeqToBag(s) == [r \in Range(s) |-> Cardinality({i \in DOMAIN s : s[i] = r})]

\* number of rows of a multiset of rows
BagSize(b) == Cardinality(UNION {{<<r, k>> : k \in 1..b[r]} : r \in DOMAIN b})

\* ------------------------------------------------------------- input file
\* a temperature that differs from one year column to the next
Temp(base, y) == DblV(base * 100 + (y - FirstYear))

CsvRow(id, country, iso2, iso3, base, numbers, nans) ==
    <<IntV(id), country, iso2, iso3>>
    \o [i \in 1..NumYears |->
          IF (FirstYear + i - 1) \in numbers THEN Temp(base, FirstYear + i - 1)
          ELSE IF (FirstYear + i - 1) \in nans THEN NaN
          ELSE Null]

OddYears == {y \in Years : y % 2 = 1}

\* all years present
RowA == CsvRow(1, StrV(<<"A">>), StrV(<<"A", "A">>), StrV(<<"A", "A", "A">>), 1, Years, {})
\* no number in any year, NaN in the first year, ISO2 and ISO3 missing
RowB == CsvRow(2, StrV(<<"B">>), Null, Null, 2, {}, {FirstYear})
\* some years present, ISO2 missing
RowC == CsvRow(3, StrV(<<"C">>), Null, StrV(<<"C", "C", "C">>), 3, OddYears, {})
\* the identity of RowA again, ISO2 missing, every year null
RowD == CsvRow(1, StrV(<<"A">>), Null, StrV(<<"A", "A", "A">>), 1, {}, {})

InputRows == {RowA, RowB, RowC, RowD}

InputTables == UNION {[1..n -> InputRows] : n \in 0..MaxRows}

CsvFiles == {[rows |-> t] : t \in InputTables} \cup {NoFile}

\* ------------------------------------------------------------ data frames
\* inferSchema=True: the type of a column is the common type of its non-null
\* cells; a column with no non-null cell is a string column
InferType(cells) ==
    LET tags == {c[1] : c \in {d \in cells : ~IsNull(d)}}
    IN  IF tags = {} THEN "string"
        ELSE IF tags = {"int"} THEN "int"
        ELSE IF tags \subseteq {"int", "double", "nan"} THEN "double"
        ELSE "string"

\* spark.read.csv(file_path, header=True, inferSchema=True)
read_csv(file) ==
    [columns |-> CsvHeader,
     types |-> [j \in DOMAIN CsvHeader |->
                  InferType({file.rows[i][j] : i \in DOMAIN file.rows})],
     nullable |-> [j \in DOMAIN CsvHeader |-> TRUE],
     rows |-> file.rows]

\* fault: the fill is not restricted to the named column (df.fillna(value))
fillna_every_column(frame, name, value) ==
    [frame EXCEPT !.rows =
        [i \in DOMAIN frame.rows |->
            [j \in DOMAIN frame.columns |->
                IF frame.types[j] = "string" /\ IsNull(frame.rows[i][j])
                THEN StrV(value)
                ELSE frame.rows[i][j]]]]

\* df.fillna({name: value}) with a string value: only a string column of that
\* name is filled
fillna(frame, name, value) ==
    [frame EXCEPT !.rows =
        [i \in DOMAIN frame.rows |->
            [j \in DOMAIN frame.columns |->
                IF /\ frame.columns[j] = name
                   /\ frame.types[j] = "string"
                   /\ IsNull(frame.rows[i][j])
                THEN StrV(value)
                ELSE frame.rows[i][j]]]]

\* [col for col in df.columns if col.startswith('F')]
FColumns(columns) == SelectSeq(columns, LAMBDA c : StartsWith(c, <<"F">>))

\* what df.na.drop counts as a value: a cell that is neither null nor NaN
Counts(v) == ~IsNull(v) /\ ~IsNaN(v)

\* fault: how='any', a row is kept only when every subset column has a value
na_drop_any(frame, subset) ==
    [frame EXCEPT !.rows =
        SelectSeq(frame.rows,
                  LAMBDA r : \A k \in DOMAIN subset :
                                Counts(r[ColIndex(frame.columns, subset[k])]))]

\* df.na.drop(subset=subset, how='all'): a row is kept when at least one of
\* the subset columns is neither null nor NaN
na_drop_all(frame, subset) ==
    [frame EXCEPT !.rows =
        SelectSeq(frame.rows,
                  LAMBDA r : \E k \in DOMAIN subset :
                                Counts(r[ColIndex(frame.columns, subset[k])]))]

\* fault: ISO2 is selected next to the other identity columns
ReshapeIdentityWithISO2 == <<ObjectIdCol, CountryCol, ISO2Col, ISO3Col>>

\* the columns the selectExpr of the reshape refers to
ReshapeIdentity == <<ObjectIdCol, CountryCol, ISO3Col>>

ReshapeRefs == ReshapeIdentity \o [i \in 1..NumYears |-> FLabel(i - 1)]

\* analysis of the selectExpr: every referenced column exists and the value
\* arguments of stack all have one type
ReshapeAnalyses(frame) ==
    /\ \A k \in DOMAIN ReshapeRefs : HasColumn(frame.columns, ReshapeRefs[k])
    /\ \A i \in 0..(NumYears - 1) :
          frame.types[ColIndex(frame.columns, FLabel(i))]
            = frame.types[ColIndex(frame.columns, FLabel(0))]

\* fault: the stack pairs every label with the value of the next year column
ReshapeShifted(frame) ==
    LET n == Len(frame.rows)
        ident == [k \in DOMAIN ReshapeIdentity |-> ColIndex(frame.columns, ReshapeIdentity[k])]
    IN  [columns |-> ReshapeIdentity \o <<YearCol, TemperatureCol>>,
         types |-> [k \in DOMAIN ReshapeIdentity |-> frame.types[ident[k]]]
                   \o <<"string", frame.types[ColIndex(frame.columns, FLabel(0))]>>,
         nullable |-> [k \in DOMAIN ReshapeIdentity |-> frame.nullable[ident[k]]]
                      \o <<TRUE, TRUE>>,
         rows |-> [m \in 1..(n * NumYears) |->
                     LET r == frame.rows[((m - 1) \div NumYears) + 1]
                         i == (m - 1) % NumYears
                     IN  [k \in DOMAIN ReshapeIdentity |-> r[ident[k]]]
                         \o <<StrV(FLabel(i)),
                              r[ColIndex(frame.columns, FLabel((i + 1) % NumYears))]>>]]

\* fault: the identity cells are taken from the input rows in rotation
\* instead of from the row the values come from
ReshapeWrongRow(frame) ==
    LET n == Len(frame.rows)
        ident == [k \in DOMAIN ReshapeIdentity |-> ColIndex(frame.columns, ReshapeIdentity[k])]
    IN  [columns |-> ReshapeIdentity \o <<YearCol, TemperatureCol>>,
         types |-> [k \in DOMAIN ReshapeIdentity |-> frame.types[ident[k]]]
                   \o <<"string", frame.types[ColIndex(frame.columns, FLabel(0))]>>,
         nullable |-> [k \in DOMAIN ReshapeIdentity |-> frame.nullable[ident[k]]]
                      \o <<TRUE, TRUE>>,
         rows |-> [m \in 1..(n * NumYears) |->
                     LET r == frame.rows[((m - 1) \div NumYears) + 1]
                         q == frame.rows[((m - 1) % n) + 1]
                         i == (m - 1) % NumYears
                     IN  [k \in DOMAIN ReshapeIdentity |-> q[ident[k]]]
                         \o <<StrV(FLabel(i)), r[ColIndex(frame.columns, FLabel(i))]>>]]

\* df.selectExpr("ObjectId", "Country", "ISO3", "stack(62, 'F1961', F1961, ...)
\* as (Year, Temperature)"): per input row, in order, one row per year column
Reshape(frame) ==
    LET n == Len(frame.rows)
        ident == [k \in DOMAIN ReshapeIdentity |-> ColIndex(frame.columns, ReshapeIdentity[k])]
    IN  [columns |-> ReshapeIdentity \o <<YearCol, TemperatureCol>>,
         types |-> [k \in DOMAIN ReshapeIdentity |-> frame.types[ident[k]]]
                   \o <<"string", frame.types[ColIndex(frame.columns, FLabel(0))]>>,
         nullable |-> [k \in DOMAIN ReshapeIdentity |-> frame.nullable[ident[k]]]
                      \o <<TRUE, TRUE>>,
         rows |-> [m \in 1..(n * NumYears) |->
                     LET r == frame.rows[((m - 1) \div NumYears) + 1]
                         i == (m - 1) % NumYears
                     IN  [k \in DOMAIN ReshapeIdentity |-> r[ident[k]]]
                         \o <<StrV(FLabel(i)), r[ColIndex(frame.columns, FLabel(i))]>>]]

\* df_pivot.withColumn("Year", expr("int(substring(Year, 2, 4))")): the Year
\* column is replaced in place by the integer
with_year(frame, ansi) ==
    LET y == ColIndex(frame.columns, YearCol)
    IN  [frame EXCEPT
           !.types = [frame.types EXCEPT ![y] = "int"],
           !.nullable = [frame.nullable EXCEPT ![y] = TRUE],
           !.rows = [i \in DOMAIN frame.rows |->
                       [frame.rows[i] EXCEPT ![y] = YearExpr(frame.rows[i][y], ansi)]]]

\* evaluation of the Year expression raises for some row
YearRaises(frame) ==
    \E i \in DOMAIN frame.rows :
        frame.rows[i][ColIndex(frame.columns, YearCol)] = CastError

\* data[-5:]
Last(s, k) == SubSeq(s, IF Len(s) > k THEN Len(s) - k + 1 ELSE 1, Len(s))

\* fault: mode("append"), the rows are added to those already at the path
parquet_append(old, frame) ==
    LET new == SeqToBag(frame.rows)
        had == IF old = NoFile THEN << >> ELSE old.rows
    IN  [columns |-> frame.columns,
         types |-> frame.types,
         nullable |-> [j \in DOMAIN frame.columns |-> TRUE],
         rows |-> [r \in DOMAIN new \cup DOMAIN had |->
                     (IF r \in DOMAIN new THEN new[r] ELSE 0)
                     + (IF r \in DOMAIN had THEN had[r] ELSE 0)]]

\* fault: rows that are equal are stored once
parquet_distinct(old, frame) ==
    [columns |-> frame.columns,
     types |-> frame.types,
     nullable |-> [j \in DOMAIN frame.columns |-> TRUE],
     rows |-> [r \in Range(frame.rows) |-> 1]]

\* what write.mode("overwrite").parquet puts at the output path: the previous
\* content is discarded, every column is stored as nullable, the rows are
\* stored without regard to their order
parquet_overwrite(old, frame) ==
    [columns |-> frame.columns,
     types |-> frame.types,
     nullable |-> [j \in DOMAIN frame.columns |-> TRUE],
     rows |-> SeqToBag(frame.rows)]

\* spark.read.parquet(output_path)
read_parquet(file) == file

\* ------------------------------------------------------------------ state
VARIABLES
    csv,                 \* content of /content/temperature.csv, or NoFile
    store,               \* content of /processed_temperature.parquet, or NoFile
    spark,               \* the session: [ansi |-> BOOLEAN], or None
    df,
    temperatre_columns,
    df_pivot,
    data,
    last_5_rows,
    processed_df,
    pc,                  \* the statement the script is at
    failed_at,           \* the statement that raised, or "none"
    ran,                 \* the statements completed in this run, in order
    replaced,            \* what the write of this run found at the output path
    runs                 \* number of runs started

vars == <<csv, store, spark, df, temperatre_columns, df_pivot, data,
          last_5_rows, processed_df, pc, failed_at, ran, replaced, runs>>

\* the statements of the script, in program order
Stages == <<"session", "extract", "fill", "drop", "reshape", "year",
            "collect", "write", "reread">>

StageIndex(name) == CHOOSE i \in DOMAIN Stages : Stages[i] = name

\* fault: the reshape is stepped over
AfterSkipsReshape(name) ==
    IF name = "drop" THEN "year"
    ELSE IF StageIndex(name) = Len(Stages) THEN "done"
    ELSE Stages[StageIndex(name) + 1]

After(name) == IF StageIndex(name) = Len(Stages) THEN "done"
               ELSE Stages[StageIndex(name) + 1]

\* the statement at pc returned: control falls through to the next statement
Completes(name) ==
    /\ pc' = After(name)
    /\ ran' = Append(ran, name)
    /\ failed_at' = "none"

\* fault: the exception is swallowed and the script goes on
RaisesAndContinues(name) ==
    /\ pc' = After(name)
    /\ ran' = ran
    /\ failed_at' = name

\* the statement at pc raised: nothing catches it, the interpreter exits
Raises(name) ==
    /\ pc' = "failed"
    /\ ran' = ran
    /\ failed_at' = name

\* a fresh interpreter: no program variable is bound
Fresh ==
    /\ spark = None
    /\ df = None
    /\ temperatre_columns = None
    /\ df_pivot = None
    /\ data = None
    /\ last_5_rows = None
    /\ processed_df = None
    /\ pc = "session"
    /\ failed_at = "none"
    /\ ran = <<>>
    /\ replaced = NoFile

Init ==
    /\ csv \in CsvFiles
    /\ store = NoFile
    /\ runs = 1
    /\ Fresh

\* SparkSession.builder.appName("ETL Pipeline").getOrCreate(); whether ANSI
\* mode is on is a default of the installed Spark version
CreateSession ==
    /\ pc = "session"
    /\ \E ansi \in BOOLEAN : spark' = [ansi |-> ansi]
    /\ Completes("session")
    /\ UNCHANGED <<csv, store, df, temperatre_columns, df_pivot, data,
                   last_5_rows, processed_df, replaced, runs>>

\* df = spark.read.csv(file_path, header=True, inferSchema=True)
Extract ==
    /\ pc = "extract"
    /\ IF csv = NoFile
       THEN /\ Raises("extract")
            /\ df' = df
       ELSE /\ Completes("extract")
            /\ df' = read_csv(csv)
    /\ UNCHANGED <<csv, store, spark, temperatre_columns, df_pivot, data,
                   last_5_rows, processed_df, replaced, runs>>

\* df = df.fillna({"ISO2": "Unknown"})
Fill ==
    /\ pc = "fill"
    /\ df' = fillna(df, ISO2Col, Unknown)
    /\ Completes("fill")
    /\ UNCHANGED <<csv, store, spark, temperatre_columns, df_pivot, data,
                   last_5_rows, processed_df, replaced, runs>>

\* temperatre_columns = [...]; df = df.na.drop(subset=temperatre_columns, how='all')
Drop ==
    /\ pc = "drop"
    /\ temperatre_columns' = FColumns(df.columns)
    /\ df' = na_drop_all(df, temperatre_columns')
    /\ Completes("drop")
    /\ UNCHANGED <<csv, store, spark, df_pivot, data, last_5_rows,
                   processed_df, replaced, runs>>

\* df_pivot = df.selectExpr(...)
ReshapeStep ==
    /\ pc = "reshape"
    /\ IF ReshapeAnalyses(df)
       THEN /\ Completes("reshape")
            /\ df_pivot' = Reshape(df)
       ELSE /\ Raises("reshape")
            /\ df_pivot' = df_pivot
    /\ UNCHANGED <<csv, store, spark, df, temperatre_columns, data,
                   last_5_rows, processed_df, replaced, runs>>

\* df_pivot = df_pivot.withColumn("Year", expr(...)); df_pivot.show(5)
YearConvert ==
    /\ pc = "year"
    /\ LET converted == with_year(df_pivot, spark.ansi)
       IN  IF YearRaises(converted)
           THEN /\ Raises("year")
                /\ df_pivot' = converted
           ELSE /\ Completes("year")
                /\ df_pivot' = converted
    /\ UNCHANGED <<csv, store, spark, df, temperatre_columns, data,
                   last_5_rows, processed_df, replaced, runs>>

\* data = df_pivot.collect(); last_5_rows = data[-5:]
Collect ==
    /\ pc = "collect"
    /\ data' = df_pivot.rows
    /\ last_5_rows' = Last(data', LastRows)
    /\ Completes("collect")
    /\ UNCHANGED <<csv, store, spark, df, temperatre_columns, df_pivot,
                   processed_df, replaced, runs>>

\* df_pivot.write.mode("overwrite").parquet(output_path); a write that fails
\* leaves the previous content or nothing at the path
Write ==
    /\ pc = "write"
    /\ \/ /\ store' = parquet_overwrite(store, df_pivot)
          /\ replaced' = store
          /\ Completes("write")
       \/ /\ store' \in {store, NoFile}
          /\ replaced' = replaced
          /\ Raises("write")
    /\ UNCHANGED <<csv, spark, df, temperatre_columns, df_pivot, data,
                   last_5_rows, processed_df, runs>>

\* processed_df = spark.read.parquet(output_path)
Reread ==
    /\ pc = "reread"
    /\ IF store = NoFile
       THEN /\ Raises("reread")
            /\ processed_df' = processed_df
       ELSE /\ Completes("reread")
            /\ processed_df' = read_parquet(store)
    /\ UNCHANGED <<csv, store, spark, df, temperatre_columns, df_pivot, data,
                   last_5_rows, replaced, runs>>

\* the script is started again, possibly on another input file; the output
\* path keeps what the earlier run left there
RunAgain ==
    /\ pc \in {"done", "failed"}
    /\ runs < MaxRuns
    /\ runs' = runs + 1
    /\ csv' \in CsvFiles
    /\ spark' = None
    /\ df' = None
    /\ temperatre_columns' = None
    /\ df_pivot' = None
    /\ data' = None
    /\ last_5_rows' = None
    /\ processed_df' = None
    /\ pc' = "session"
    /\ failed_at' = "none"
    /\ ran' = <<>>
    /\ replaced' = NoFile
    /\ UNCHANGED store

Next ==
    \/ CreateSession
    \/ Extract
    \/ Fill
    \/ Drop
    \/ ReshapeStep
    \/ YearConvert
    \/ Collect
    \/ Write
    \/ Reread
    \/ RunAgain

Spec == Init /\ [][Next]_vars

\* ------------------------------------------- the Year expression alone
LabelChars == {"F", "1", "9", "-", "."}

Labels == UNION {[1..n -> LabelChars] : n \in 0..MaxLabelLen}

\* a reshaped table of one row whose Year label is l
LabelFrame(l) ==
    [columns |-> ReshapeIdentity \o <<YearCol, TemperatureCol>>,
     types |-> <<"int", "string", "string", "string", "double">>,
     nullable |-> <<TRUE, TRUE, TRUE, TRUE, TRUE>>,
     rows |-> << <<RowA[1], RowA[2], RowA[4], StrV(l), RowA[5]>> >>]

\* the script in front of the Year conversion, with any label in the table
InitParse ==
    /\ csv = [rows |-> <<RowA>>]
    /\ store = NoFile
    /\ runs = 1
    /\ spark \in {[ansi |-> a] : a \in BOOLEAN}
    /\ df = None
    /\ temperatre_columns = None
    /\ \E l \in Labels : df_pivot = LabelFrame(l)
    /\ data = None
    /\ last_5_rows = None
    /\ processed_df = None
    /\ pc = "year"
    /\ failed_at = "none"
    /\ ran = SubSeq(Stages, 1, StageIndex("year") - 1)
    /\ replaced = NoFile

NextParse == YearConvert

SpecParse == InitParse /\ [][NextParse]_vars

\* ------------------------------------------------------------- properties
\* Notions the properties are stated in, read off the input file and the
\* tables themselves rather than through the operators of the script.

StageDone(name) == \E i \in DOMAIN ran : ran[i] = name

\* cell of input row r in the column of year y
ValueOf(r, y) == r[4 + (y - FirstYear) + 1]

\* some value column of input row r is non-null
NonNull(r) == \E y \in Years : ~IsNull(ValueOf(r, y))

\* some value column of input row r holds a number
HasValue(r) == \E y \in Years : ~IsNull(ValueOf(r, y)) /\ ~IsNaN(ValueOf(r, y))

\* identity key of an input row: ObjectId, Country, ISO3
InKey(r) == <<r[1], r[2], r[4]>>

\* identity key of a reshaped row
OutKey(o) == <<o[1], o[2], o[3]>>

InRows == csv.rows

SurvivingRows == SelectSeq(InRows, HasValue)

CountKey(rows, key) == Cardinality({m \in DOMAIN rows : OutKey(rows[m]) = key})

Expected(r, y) == <<r[1], r[2], r[4], IntV(y), ValueOf(r, y)>>

C3_IdentityWithISO2AsStated ==
    StageDone("reshape") =>
        df_pivot.columns = <<ObjectIdCol, CountryCol, ISO2Col, ISO3Col,
                             YearCol, TemperatureCol>>

\* C3 amended: the reshaped table has the columns ObjectId, Country, ISO3,
\* Year, Temperature, in that order, and the rows of the k-th surviving input
\* row carry that row's ObjectId, Country and ISO3 cells unchanged.
C3_IdentityCarried ==
    StageDone("reshape") =>
        /\ df_pivot.columns = <<ObjectIdCol, CountryCol, ISO3Col,
                                YearCol, TemperatureCol>>
        /\ Len(df_pivot.rows) = Len(SurvivingRows) * NumYears
        /\ \A m \in DOMAIN df_pivot.rows :
              OutKey(df_pivot.rows[m])
                = InKey(SurvivingRows[((m - 1) \div NumYears) + 1])

\* two surviving input rows of different identity have been reshaped
C3_Witness ==
    /\ StageDone("reshape")
    /\ Len(SurvivingRows) = 2
    /\ InKey(SurvivingRows[1]) # InKey(SurvivingRows[2])
    /\ Len(df_pivot.rows) = 2 * NumYears

IsLetter(c) == ~IsDigit(c) /\ c \notin {"-", "+", "."}

\* one letter followed by exactly four digits
WellFormed(l) == Len(l) = 5 /\ IsLetter(l[1]) /\ AllDigits(SubSeq(l, 2, 5))

C5_FillOnlyISO2 ==
    [][(pc = "fill" /\ pc' # "fill") =>
          /\ df'.columns = df.columns
          /\ df'.types = df.types
          /\ Len(df'.rows) = Len(df.rows)
          /\ \A i \in DOMAIN df.rows : \A j \in DOMAIN df.columns :
                df'.rows[i][j]
                  = (IF df.columns[j] = ISO2Col /\ IsNull(df.rows[i][j])
                     THEN StrV(Unknown)
                     ELSE df.rows[i][j])
          /\ csv' = csv
          /\ store' = store]_vars

\* the fill has run on a table with a missing ISO2, a present ISO2, a
\* missing ISO3 and missing temperatures
C5_Witness ==
    /\ pc = "drop"
    /\ \E i, k \in DOMAIN df.rows :
          /\ IsNull(InRows[i][3])
          /\ df.rows[i][3] = StrV(Unknown)
          /\ IsNull(df.rows[i][4])
          /\ IsNull(df.rows[i][6])
          /\ ~IsNull(InRows[k][3])
          /\ df.rows[k][3] = InRows[k][3]

ExpectedRows(rows) ==
    LET surv == SelectSeq(rows, HasValue)
    IN  [m \in 1..(Len(surv) * NumYears) |->
           Expected(surv[((m - 1) \div NumYears) + 1],
                    FirstYear + ((m - 1) % NumYears))]

\* C7: whenever a run has completed, the output path holds exactly the
\* reshaped rows of the input of that run, each as often as it was produced,
\* whatever earlier runs left there.
C7_OverwriteOnly ==
    pc = "done" => store.rows = SeqToBag(ExpectedRows(InRows))

\* a run has completed over earlier output that held other rows
C7_Witness ==
    /\ pc = "done"
    /\ runs > 1
    /\ replaced # NoFile
    /\ BagSize(replaced.rows) > 0
    /\ replaced.rows # store.rows

Binds(name) ==
    IF name = "session" THEN {"spark"}
    ELSE IF name \in {"extract", "fill"} THEN {"df"}
    ELSE IF name = "drop" THEN {"df", "temperatre_columns"}
    ELSE IF name \in {"reshape", "year"} THEN {"df_pivot"}
    ELSE IF name = "collect" THEN {"data", "last_5_rows"}
    ELSE IF name = "reread" THEN {"processed_df"}
    ELSE {}

\* the names that have a value
Bound ==
    (IF spark # None THEN {"spark"} ELSE {})
    \cup (IF df # None THEN {"df"} ELSE {})
    \cup (IF temperatre_columns # None THEN {"temperatre_columns"} ELSE {})
    \cup (IF df_pivot # None THEN {"df_pivot"} ELSE {})
    \cup (IF data # None THEN {"data"} ELSE {})
    \cup (IF last_5_rows # None THEN {"last_5_rows"} ELSE {})
    \cup (IF processed_df # None THEN {"processed_df"} ELSE {})

\* C9: a statement that raises ends the run: the run is marked failed exactly
\* when a statement raised, the statements completed are those in front of
\* it, no later statement has bound a name or written the output, and the
\* only step from there is a new start of the script.
C9_FailFast ==
    /\ [](/\ (failed_at # "none" <=> pc = "failed")
          /\ (pc = "failed" =>
                /\ ran = SubSeq(Stages, 1, StageIndex(failed_at) - 1)
                /\ Bound \subseteq
                      UNION {Binds(Stages[h]) : h \in 1..StageIndex(failed_at)}
                /\ (StageIndex(failed_at) < StageIndex("write") => replaced = NoFile)))
    /\ [][pc = "failed" =>
             /\ pc' = "session"
             /\ runs' = runs + 1
             /\ ran' = <<>>
             /\ store' = store]_vars

\* a statement in the middle of the script has raised
C9_Witness ==
    /\ pc = "failed"
    /\ failed_at = "reshape"
    /\ ran = <<"session", "extract", "fill", "drop">>
    /\ runs > 1

\* input tables that differ from the input file in ISO2 cells only
ISO2Cells == {Null, StrV(<<"A", "A">>), StrV(<<"Z", "Z">>)}

ISO2Variants(rows) ==
    {[i \in DOMAIN rows |-> [rows[i] EXCEPT ![3] = f[i]]] :
        f \in [DOMAIN rows -> ISO2Cells]}

\* what a run of the script without failure leaves at the output path
Pipeline(file, ansi) ==
    LET read == read_csv(file)
        filled == fillna(read, ISO2Col, Unknown)
        kept == na_drop_all(filled, FColumns(filled.columns))
    IN  parquet_overwrite(NoFile, with_year(Reshape(kept), ansi))

\* C10: whenever a run has completed, the output path holds what a run on
\* any input that differs in ISO2 cells only would have left there, it has
\* no ISO2 column, and no cell of it is the "Unknown" of the fill step.
C10_OutputIgnoresISO2 ==
    pc = "done" =>
        /\ \A v \in ISO2Variants(InRows) : store = Pipeline([rows |-> v], spark.ansi)
        /\ ~HasColumn(store.columns, ISO2Col)
        /\ \A r \in DOMAIN store.rows : \A j \in DOMAIN r : r[j] # StrV(Unknown)

\* a run has completed on an input with two surviving rows, one with an ISO2
\* and one whose missing ISO2 was filled
C10_Witness ==
    /\ pc = "done"
    /\ \E i, k \in DOMAIN InRows :
          /\ HasValue(InRows[i])
          /\ HasValue(InRows[k])
          /\ IsNull(InRows[i][3])
          /\ ~IsNull(InRows[k][3])
    /\ \E i \in DOMAIN df.rows : df.rows[i][3] = StrV(Unknown)

====
